---------------------------- MODULE Spec2Model ----------------------------
(***************************************************************************)
(* A model of book.py: the chapter locator (find_chapters), the AI gateway *)
(* (call_gemini_api, summarize_book, generate_book_quiz) and the dispatch  *)
(* of the quiz button handler.                                             *)
(*                                                                         *)
(* A Python str is a sequence of one-character strings.  Python's line     *)
(* and character indices are 0-based; a TLA+ sequence is 1-based, so       *)
(* Python's lines[i] is lines[i + 1] here.                                 *)
(***************************************************************************)
EXTENDS Integers, Sequences, FiniteSets

VARIABLES
    \* ---- find_chapters(text_content) ----
    pc,                             \* position in find_chapters
    text_content,                   \* the argument
    lines,                          \* text_content.split('\n')
    i,                              \* the index of the for loop (0-based)
    chapters,                       \* the list being built
    current_chapter_title,
    current_chapter_start_index,
    \* ---- the AI gateway ----
    gw_text,                        \* the text handed to a wrapper
    gw_schema,                      \* whether a direct call carries a schema
    service,                        \* what the remote service would do
    gw_op,                          \* the function that has run ("none" before)
    gw_out,                         \* its outcome
    \* ---- the quiz button handler ----
    chapter_text,                   \* the text of the selected chapter
    quiz_result,                    \* the outcome of awaiting generate_book_quiz
    ui                              \* the outcome of the handler's dispatch

vars == <<pc, text_content, lines, i, chapters, current_chapter_title,
          current_chapter_start_index, gw_text, gw_schema, service, gw_op,
          gw_out, chapter_text, quiz_result, ui>>

fcVars == <<pc, text_content, lines, i, chapters, current_chapter_title,
            current_chapter_start_index>>
gwVars == <<gw_text, gw_schema, service, gw_op, gw_out>>
uiVars == <<chapter_text, quiz_result, ui>>

-----------------------------------------------------------------------------
(* Bounds of the model. *)

\* the longest text handed to find_chapters, in lines
MaxLines == 3

\* how far past a truncation budget the gateway texts go, in characters
MaxOver == 2

\* the longest list the service's JSON reply parses to
MaxQuestions == 2

-----------------------------------------------------------------------------
(* Characters. *)

Min(S) == CHOOSE x \in S : \A y \in S : x <= y
Max(S) == CHOOSE x \in S : \A y \in S : x >= y

UpperLetters == <<"A","B","C","D","E","F","G","H","I","J","K","L","M",
                  "N","O","P","Q","R","S","T","U","V","W","X","Y","Z">>
LowerLetters == <<"a","b","c","d","e","f","g","h","i","j","k","l","m",
                  "n","o","p","q","r","s","t","u","v","w","x","y","z">>

IsUpper(c) == \E k \in 1..Len(UpperLetters) : UpperLetters[k] = c
IsLower(c) == \E k \in 1..Len(LowerLetters) : LowerLetters[k] = c

\* case folding of re.IGNORECASE
ToLower(c) ==
    IF IsUpper(c)
    THEN LowerLetters[CHOOSE k \in 1..Len(UpperLetters) : UpperLetters[k] = c]
    ELSE c

\* what str.strip() removes and what \s matches
IsSpace(c) == c \in {" ", "\t", "\n", "\r", "\f"}
\* \d
IsDigit(c) == c \in {"0","1","2","3","4","5","6","7","8","9"}
\* [A-Za-z]
IsAlpha(c) == IsUpper(c) \/ IsLower(c)
\* \w
IsWord(c) == IsAlpha(c) \/ IsDigit(c) \/ c = "_"
\* [IVXLCDM] under re.IGNORECASE
IsRoman(c) == ToLower(c) \in {"i","v","x","l","c","d","m"}
\* . (anything but a line break)
IsAnyChar(c) == c # "\n"

-----------------------------------------------------------------------------
(* str.split('\n') and str.strip(). *)

RECURSIVE Split(_)
Split(s) ==
    LET nl == {k \in 1..Len(s) : s[k] = "\n"}
    IN  IF nl = {} THEN <<s>>
        ELSE <<SubSeq(s, 1, Min(nl) - 1)>> \o Split(SubSeq(s, Min(nl) + 1, Len(s)))

Strip(s) ==
    LET keep == {k \in 1..Len(s) : ~IsSpace(s[k])}
    IN  IF keep = {} THEN <<>> ELSE SubSeq(s, Min(keep), Max(keep))

-----------------------------------------------------------------------------
(* The two compiled patterns, matched the way pattern.match does: anchored *)
(* at offset 0, every alternative tried.  A set of offsets stands for the  *)
(* places a partial match can have consumed up to.                         *)

\* the character classes of the patterns
InClass(cls, c) ==
    CASE cls = "space" -> IsSpace(c)
      [] cls = "digit" -> IsDigit(c)
      [] cls = "word"  -> IsWord(c)
      [] cls = "roman" -> IsRoman(c)
      [] cls = "alpha" -> IsAlpha(c)
      [] cls = "any"   -> IsAnyChar(c)

\* X+ for a character class X
AfterPlus(s, cls, S) ==
    {j \in 1..Len(s) : \E p \in S : p < j /\ \A k \in (p + 1)..j : InClass(cls, s[k])}

\* X*
AfterStar(s, cls, S) == S \cup AfterPlus(s, cls, S)

\* a literal word, case folded (w is in lower case)
AfterLiteral(s, w, S) ==
    {p + Len(w) : p \in {q \in S : /\ q + Len(w) <= Len(s)
                                   /\ \A k \in 1..Len(w) : ToLower(s[q + k]) = w[k]}}

\* $ under re.MULTILINE: at the end, or right before a line break
AtLineEnd(s, S) == {p \in S : p = Len(s) \/ s[p + 1] = "\n"}

\* ^(Chapter\s+\d+|CHAPTER\s+\d+|Chapter\s+[IVXLCDM]+|Chapter\s+[A-Za-z]+|(\d+\.\s+)?\w+\s+.*)\s*$
MatchChapterPattern(s) ==
    LET kw   == AfterPlus(s, "space",
                    AfterLiteral(s, <<"c","h","a","p","t","e","r">>, {0}))
        alt1 == AfterPlus(s, "digit", kw)
        alt2 == AfterPlus(s, "digit", kw)
        alt3 == AfterPlus(s, "roman", kw)
        alt4 == AfterPlus(s, "alpha", kw)
        num  == AfterPlus(s, "space",
                    AfterLiteral(s, <<".">>, AfterPlus(s, "digit", {0})))
        alt5 == AfterStar(s, "any",
                    AfterPlus(s, "space", AfterPlus(s, "word", {0} \cup num)))
    IN  AtLineEnd(s, AfterStar(s, "space",
                    alt1 \cup alt2 \cup alt3 \cup alt4 \cup alt5)) # {}

\* ^(Part\s+\d+|PART\s+\d+|Part\s+[IVXLCDM]+|Part\s+[A-Za-z]+)\s*$
MatchPartPattern(s) ==
    LET kw   == AfterPlus(s, "space", AfterLiteral(s, <<"p","a","r","t">>, {0}))
        alt1 == AfterPlus(s, "digit", kw)
        alt3 == AfterPlus(s, "roman", kw)
        alt4 == AfterPlus(s, "alpha", kw)
    IN  AtLineEnd(s, AfterStar(s, "space", alt1 \cup alt3 \cup alt4)) # {}

\* chapter_patterns[k - 1].match(s)
PatternMatch(k, s) == IF k = 1 THEN MatchChapterPattern(s) ELSE MatchPartPattern(s)

NumPatterns == 2


-----------------------------------------------------------------------------
(* find_chapters: the texts it is given. *)

\* "Introduction/Beginning"
Sentinel == <<"I","n","t","r","o","d","u","c","t","i","o","n","/",
              "B","e","g","i","n","n","i","n","g">>

\* The lines the texts are made of (none holds a line break).
SampleLines ==
    { <<"C","h","a","p","t","e","r"," ","1">>,      \* heading, pattern 1
      <<"C","h","a","p","t","e","r"," ","2">>,      \* heading, pattern 1
      <<" ","P","a","r","t"," ","I","V","\r">>,     \* heading, both patterns
      <<"2","."," ","T","h","e"," ","E","n","d">>,  \* heading, numbered
      <<"b","o","d","y">>,                          \* no heading
      <<>>,                                         \* no heading
      <<"1","."," ","T","i","t","l","e">>,          \* no heading
      <<"C","h","a","p","t","e","r">> }             \* no heading

RECURSIVE JoinLines(_)
JoinLines(ls) ==
    IF Len(ls) = 1 THEN ls[1] ELSE ls[1] \o <<"\n">> \o JoinLines(Tail(ls))

\* every text of 1..MaxLines sample lines (the empty text is the one line <<>>)
TextInputs ==
    {JoinLines(ls) : ls \in UNION {[1..n -> SampleLines] : n \in 1..MaxLines}}

-----------------------------------------------------------------------------
(* find_chapters: the loop body and the final steps. *)

Chapter(title, start, end) ==
    [title |-> title, start_line |-> start, end_line |-> end]

\* line 88: the end of the chapter a heading at line idx closes
PreviousEnd(idx) == idx - 1

\* lines 84-91: what a matching line does to the scan's state
OpenChapter(st, line, idx) ==
    [chapters |-> IF st.title # <<>>
                  THEN Append(st.chapters,
                              Chapter(Strip(st.title), st.start, PreviousEnd(idx)))
                  ELSE st.chapters,
     title    |-> Strip(line),
     start    |-> idx]

\* lines 82-92 without the break: every matching pattern runs the body
RECURSIVE ScanPatternsNoBreak(_, _, _, _)
ScanPatternsNoBreak(k, st, line, idx) ==
    IF k > NumPatterns THEN st
    ELSE IF PatternMatch(k, Strip(line))
         THEN ScanPatternsNoBreak(k + 1, OpenChapter(st, line, idx), line, idx)
         ELSE ScanPatternsNoBreak(k + 1, st, line, idx)

\* lines 82-92: the patterns in order; the first to match runs the body and
\* breaks out of the inner loop
RECURSIVE ScanPatterns(_, _, _, _)
ScanPatterns(k, st, line, idx) ==
    IF k > NumPatterns THEN st
    ELSE IF PatternMatch(k, Strip(line))
         THEN OpenChapter(st, line, idx)
         ELSE ScanPatterns(k + 1, st, line, idx)

\* line 99 with an off-by-one
LastLineIndexOffByOne(ls) == Len(ls)

\* line 99: len(lines) - 1
LastLineIndex(ls) == Len(ls) - 1

\* line 103 with no filter at all
KeepEveryChapter(c) == TRUE

\* line 103: the filter's condition
KeepChapter(c) == c.end_line >= c.start_line

\* lines 69-79
FcStart ==
    /\ pc = "start"
    /\ chapters' = <<>>
    /\ lines' = Split(text_content)
    /\ current_chapter_title' = Sentinel
    /\ current_chapter_start_index' = 0
    /\ i' = 0
    /\ pc' = "loop"
    /\ UNCHANGED <<text_content, gwVars, uiVars>>

\* lines 81-92: one turn of the for loop over the lines
FcLine ==
    /\ pc = "loop"
    /\ i < Len(lines)
    /\ LET st == ScanPatterns(1,
                    [chapters |-> chapters, title |-> current_chapter_title,
                     start |-> current_chapter_start_index],
                    lines[i + 1], i)
       IN  /\ chapters' = st.chapters
           /\ current_chapter_title' = st.title
           /\ current_chapter_start_index' = st.start
    /\ i' = i + 1
    /\ UNCHANGED <<pc, text_content, lines, gwVars, uiVars>>

\* lines 94-100: the for loop is exhausted; add the last chapter
FcAddLast ==
    /\ pc = "loop"
    /\ i = Len(lines)
    /\ chapters' = IF current_chapter_title # <<>>
                   THEN Append(chapters,
                               Chapter(Strip(current_chapter_title),
                                       current_chapter_start_index,
                                       LastLineIndex(lines)))
                   ELSE chapters
    /\ pc' = "filter"
    /\ UNCHANGED <<text_content, lines, i, current_chapter_title,
                   current_chapter_start_index, gwVars, uiVars>>

\* lines 102-105: filter and return
FcFilter ==
    /\ pc = "filter"
    /\ chapters' = SelectSeq(chapters, KeepChapter)
    /\ pc' = "done"
    /\ UNCHANGED <<text_content, lines, i, current_chapter_title,
                   current_chapter_start_index, gwVars, uiVars>>

-----------------------------------------------------------------------------
(* Python values: what a call returns and what json.loads produces. *)

PyNone == [kind |-> "None"]
PyBool(b) == [kind |-> "bool", b |-> b]
PyInt(n) == [kind |-> "int", n |-> n]
PyStr(cs) == [kind |-> "str", chars |-> cs]
PyList(xs) == [kind |-> "list", items |-> xs]
\* entries: a function from the keys (strings) to the values
PyDict(entries) == [kind |-> "dict", entries |-> entries]

\* bool(v)
Truthy(v) ==
    CASE v.kind = "None" -> FALSE
      [] v.kind = "bool" -> v.b
      [] v.kind = "int"  -> v.n # 0
      [] v.kind = "str"  -> v.chars # <<>>
      [] v.kind = "list" -> v.items # <<>>
      [] v.kind = "dict" -> DOMAIN v.entries # {}

\* the place of a result when the call raised instead of returning
NoValue == [kind |-> "no value"]

-----------------------------------------------------------------------------
(* The AI gateway. *)

\* line 59: text_content[:8000]
SummaryBudget == 8000
\* line 133: text_segment[:2000]
QuizBudget == 2000

\* s[:n] with no limit applied
SliceWhole(s, n) == s

\* s[:n] for n >= 0
Slice(s, n) == SubSeq(s, 1, IF Len(s) < n THEN Len(s) ELSE n)

\* The attributes a Python list has; line 17 looks up chatHistory.push.
ListAttributes ==
    {"append", "clear", "copy", "count", "extend", "index", "insert", "pop",
     "remove", "reverse", "sort"}

\* json.loads(text) of the reply texts of the model: the value, or a
\* JSONDecodeError
JsonLoads(cs) ==
    CASE cs = <<"[","]">>         -> [ok |-> TRUE, value |-> PyList(<<>>)]
      [] cs = <<"n","u","l","l">> -> [ok |-> TRUE, value |-> PyNone]
      [] cs = <<"{","}">>         -> [ok |-> TRUE, value |-> PyDict(<<>>)]
      [] cs = <<"[","1","]">>     -> [ok |-> TRUE, value |-> PyList(<<PyInt(1)>>)]
      [] cs = <<"[","{","}","]">> -> [ok |-> TRUE, value |-> PyList(<<PyDict(<<>>)>>)]
      [] OTHER                    -> [ok |-> FALSE]

ReplyTexts ==
    {<<"[","]">>, <<"n","u","l","l">>, <<"{","}">>, <<"[","1","]">>,
     <<"[","{","}","]">>, <<"o","o","p","s">>}

\* What the remote service would do with a request: the transport fails
\* (network error, timeout, failure status), or a reply arrives whose envelope
\* holds candidates[0].content.parts[0].text or does not.
Services ==
    [transport : {"ok", "error"}, envelope : {"reply", "empty"}, text : ReplyTexts]

CallOutcome(ret, raised, requests, errors) ==
    [ret |-> ret, raised |-> raised, requests |-> requests, errors |-> errors]

\* lines 32-53: the try block and its handler
FetchAndParse(schema, svc) ==
    IF svc.transport = "error"
    \* line 33 raises; lines 51-53
    THEN CallOutcome(PyNone, "none", 1, 1)
    ELSE IF svc.envelope = "reply"
         THEN IF schema
              THEN IF JsonLoads(svc.text).ok
                   \* line 44
                   THEN CallOutcome(JsonLoads(svc.text).value, "none", 1, 0)
                   \* line 44 raises; lines 51-53
                   ELSE CallOutcome(PyNone, "none", 1, 1)
              \* line 46
              ELSE CallOutcome(PyStr(svc.text), "none", 1, 0)
         \* lines 47-50
         ELSE CallOutcome(PyNone, "none", 1, 1)

\* lines 12-53: call_gemini_api(prompt, schema).  Line 17 is outside the try
\* block: the AttributeError of chatHistory.push leaves the function before a
\* request is built.
call_gemini_api(prompt, schema, svc) ==
    IF "push" \notin ListAttributes
    THEN CallOutcome(NoValue, "AttributeError", 0, 0)
    ELSE FetchAndParse(schema, svc)

\* the outcome of a wrapper: that of its call of call_gemini_api, the number
\* of such calls and the prompt and schema handed over
GatewayOutcome(r, calls, prompt, schema) ==
    [ret |-> r.ret, raised |-> r.raised, requests |-> r.requests,
     errors |-> r.errors, calls |-> calls, prompt |-> prompt, schema |-> schema]

NoPrompt == [template |-> "none", text |-> <<>>]

\* lines 55-62: summarize_book(text_content, summary_length_ratio); the
\* prompt is its fixed instruction followed by the embedded text
summarize_book(text, svc) ==
    LET prompt == [template |-> "summary", text |-> Slice(text, SummaryBudget)]
    IN  GatewayOutcome(call_gemini_api(prompt, FALSE, svc), 1, prompt, FALSE)

\* line 113: the message
QuizInputError ==
    PyDict([error |-> PyStr(<<"P","l","e","a","s","e"," ","p","r","o","v","i",
                              "d","e"," ","t","e","x","t"," ","t","o"," ","g",
                              "e","n","e","r","a","t","e"," ","a"," ","q","u",
                              "i","z",".">>)])

\* lines 132-145: the call generate_book_quiz makes
QuizCall(text, svc) ==
    LET prompt == [template |-> "quiz", text |-> Slice(text, QuizBudget)]
    IN  GatewayOutcome(call_gemini_api(prompt, TRUE, svc), 1, prompt, TRUE)

\* generate_book_quiz without the check of lines 112-113
GenerateBookQuizUnguarded(text, svc) == QuizCall(text, svc)

\* lines 107-145: generate_book_quiz(text_segment)
generate_book_quiz(text, svc) ==
    IF text = <<>>
    THEN GatewayOutcome(CallOutcome(QuizInputError, "none", 0, 0), 0, NoPrompt, FALSE)
    ELSE QuizCall(text, svc)

NoOutcome == GatewayOutcome(CallOutcome(NoValue, "none", 0, 0), 0, NoPrompt, FALSE)

\* The texts handed to the gateway: of every length around the two budgets,
\* with characters that depend on the position.
TextLetters == <<"a", "b", "c">>
MakeText(n, seed) == [k \in 1..n |-> TextLetters[((k * seed) % 3) + 1]]
GatewayLengths ==
    {0, 1} \cup ((QuizBudget - 1)..(QuizBudget + MaxOver))
           \cup ((SummaryBudget - 1)..(SummaryBudget + MaxOver))
GatewayTexts == {MakeText(n, seed) : n \in GatewayLengths, seed \in {1, 2}}

\* a direct call: call_gemini_api(prompt, schema)
DoCallGeminiApi ==
    /\ gw_op = "none"
    /\ gw_op' = "call_gemini_api"
    /\ LET prompt == [template |-> "raw", text |-> gw_text]
       IN  gw_out' = GatewayOutcome(call_gemini_api(prompt, gw_schema, service),
                                    1, prompt, gw_schema)
    /\ UNCHANGED <<gw_text, gw_schema, service, fcVars, uiVars>>

\* await summarize_book(text)
DoSummarizeBook ==
    /\ gw_op = "none"
    /\ gw_op' = "summarize_book"
    /\ gw_out' = summarize_book(gw_text, service)
    /\ UNCHANGED <<gw_text, gw_schema, service, fcVars, uiVars>>

\* await generate_book_quiz(text)
DoGenerateBookQuiz ==
    /\ gw_op = "none"
    /\ gw_op' = "generate_book_quiz"
    /\ gw_out' = generate_book_quiz(gw_text, service)
    /\ UNCHANGED <<gw_text, gw_schema, service, fcVars, uiVars>>

-----------------------------------------------------------------------------
(* The quiz button handler (lines 204-219). *)

UiOutcome(shown, raised) == [shown |-> shown, raised |-> raised]

\* the handler has not run
UiIdle == UiOutcome(<<"idle">>, "none")

\* x in s for a str s: s holds the characters of w in a row
Contains(cs, w) ==
    \E p \in 0..(Len(cs) - Len(w)) : \A k \in 1..Len(w) : cs[p + k] = w[k]

ErrorKey == <<"e","r","r","o","r">>

\* line 214: "error" in quiz_result; a value that is no container raises
InError(v) ==
    CASE v.kind = "dict" -> [raised |-> "none", holds |-> "error" \in DOMAIN v.entries]
      [] v.kind = "list" -> [raised |-> "none",
                             holds |-> \E k \in 1..Len(v.items) :
                                          v.items[k] = PyStr(ErrorKey)]
      [] v.kind = "str"  -> [raised |-> "none", holds |-> Contains(v.chars, ErrorKey)]
      [] OTHER           -> [raised |-> "TypeError", holds |-> FALSE]

\* q_data[key] (lines 210, 211, 213): the exception it raises, if any
Subscript(q, key) ==
    IF q.kind = "dict"
    THEN IF key \in DOMAIN q.entries THEN "none" ELSE "KeyError"
    ELSE "TypeError"

\* lines 210-213: the writes of one question, up to the first exception
RenderQuestion(q) ==
    IF Subscript(q, "question") # "none"
    THEN UiOutcome(<<>>, Subscript(q, "question"))
    ELSE IF Subscript(q, "options") # "none"
    THEN UiOutcome(<<"question">>, Subscript(q, "options"))
    ELSE IF q.entries.options.kind \notin {"list", "str", "dict"}
    THEN UiOutcome(<<"question">>, "TypeError")
    ELSE LET n == IF q.entries.options.kind = "list"
                  THEN Len(q.entries.options.items)
                  ELSE IF q.entries.options.kind = "str"
                       THEN Len(q.entries.options.chars)
                       ELSE Cardinality(DOMAIN q.entries.options.entries)
             opts == [k \in 1..n |-> "option"]
         IN  IF Subscript(q, "correct_answer") # "none"
             THEN UiOutcome(<<"question">> \o opts, Subscript(q, "correct_answer"))
             ELSE UiOutcome(<<"question">> \o opts \o <<"answer">>, "none")

\* lines 209-213: the for loop over the questions
RECURSIVE RenderQuestions(_, _)
RenderQuestions(qs, shown) ==
    IF qs = <<>> THEN UiOutcome(shown, "none")
    ELSE LET r == RenderQuestion(Head(qs))
         IN  IF r.raised # "none"
             THEN UiOutcome(shown \o r.shown, r.raised)
             ELSE RenderQuestions(Tail(qs), shown \o r.shown)

\* lines 207-217: what the handler does with the value of the awaited call
QuizDispatch(v) ==
    IF Truthy(v) /\ v.kind = "list" /\ Truthy(v)
    THEN RenderQuestions(v.items, <<"subheader">>)
    ELSE IF InError(v).raised # "none"
    THEN UiOutcome(<<>>, InError(v).raised)
    ELSE IF InError(v).holds
    THEN IF v.kind = "dict"
         THEN UiOutcome(<<"error: quiz_result[error]">>, "none")
         \* line 215: quiz_result["error"] of a str or a list
         ELSE UiOutcome(<<>>, "TypeError")
    ELSE UiOutcome(<<"warning: could not generate quiz">>, "none")

\* Items a parsed reply can hold.
Opt(c) == PyStr(<<c>>)
Question(opts, answer) ==
    PyDict([question |-> PyStr(<<"q">>), options |-> PyList(opts),
            correct_answer |-> answer])
QuestionItems ==
    { Question(<<Opt("a"), Opt("b"), Opt("c"), Opt("d")>>, Opt("b")),
      Question(<<Opt("a"), Opt("b"), Opt("c")>>, Opt("a")),
      Question(<<Opt("a"), Opt("b"), Opt("c"), Opt("d")>>, Opt("z")),
      PyDict([question |-> PyStr(<<"q">>)]),
      PyInt(1) }

\* The values the return statements of generate_book_quiz give: line 113,
\* and through line 145 those of call_gemini_api (None of lines 50 and 53,
\* any JSON value of line 44).
QuizReturnValues ==
    { PyNone, PyBool(TRUE), PyBool(FALSE), PyInt(0), PyInt(1),
      PyStr(<<>>), PyStr(<<"o","k">>), PyStr(<<"n","o"," ">> \o ErrorKey),
      QuizInputError, PyDict(<<>>), PyDict([question |-> PyStr(<<"q">>)]),
      Question(<<Opt("a"), Opt("b"), Opt("c"), Opt("d")>>, Opt("b")) }
    \cup {PyList(qs) : qs \in UNION {[1..n -> QuestionItems] : n \in 0..MaxQuestions}}

AwaitOutcome(ret, raised) == [ret |-> ret, raised |-> raised]

\* line 206 as the code runs it
AwaitGenerateBookQuiz(text, svc) ==
    AwaitOutcome(generate_book_quiz(text, svc).ret, generate_book_quiz(text, svc).raised)

ChapterTexts == {<<>>, <<"b","o","d","y">>}

\* the outcomes of line 206 the handler is run on
QuizOutcomes ==
    {AwaitOutcome(v, "none") : v \in QuizReturnValues}
    \cup {AwaitGenerateBookQuiz(t, svc) : t \in ChapterTexts \ {<<>>}, svc \in Services}

\* lines 204-219: the button is pressed; quiz_result is the outcome of
\* line 206
QuizButton ==
    /\ ui = UiIdle
    /\ ui' = IF chapter_text = <<>>
             THEN UiOutcome(<<"warning: no text available">>, "none")
             ELSE IF quiz_result.raised # "none"
                  THEN UiOutcome(<<>>, quiz_result.raised)
                  ELSE QuizDispatch(quiz_result.ret)
    /\ UNCHANGED <<chapter_text, quiz_result, gwVars, fcVars>>

-----------------------------------------------------------------------------
(* The specifications: one per unit of the program. *)

FcIdle ==
    /\ pc = "idle"
    /\ text_content = <<>>
    /\ lines = <<>>
    /\ i = 0
    /\ chapters = <<>>
    /\ current_chapter_title = <<>>
    /\ current_chapter_start_index = 0

GwIdle ==
    /\ gw_text = <<>>
    /\ gw_schema = FALSE
    /\ service = [transport |-> "ok", envelope |-> "reply", text |-> <<"[","]">>]
    /\ gw_op = "none"
    /\ gw_out = NoOutcome

UiUnused ==
    /\ chapter_text = <<>>
    /\ quiz_result = AwaitOutcome(NoValue, "none")
    /\ ui = UiOutcome(<<"unused">>, "none")

\* find_chapters on a text
InitChapters ==
    /\ pc = "start"
    /\ text_content \in TextInputs
    /\ lines = <<>>
    /\ i = 0
    /\ chapters = <<>>
    /\ current_chapter_title = <<>>
    /\ current_chapter_start_index = 0
    /\ GwIdle
    /\ UiUnused

NextChapters == FcStart \/ FcLine \/ FcAddLast \/ FcFilter

SpecChapters == InitChapters /\ [][NextChapters]_vars

\* one call of a gateway function
InitGateway ==
    /\ gw_text \in GatewayTexts
    /\ gw_schema \in BOOLEAN
    /\ service \in Services
    /\ gw_op = "none"
    /\ gw_out = NoOutcome
    /\ FcIdle
    /\ UiUnused

NextGateway == DoCallGeminiApi \/ DoSummarizeBook \/ DoGenerateBookQuiz

SpecGateway == InitGateway /\ [][NextGateway]_vars

\* one press of the quiz button
InitHandler ==
    /\ chapter_text \in ChapterTexts
    /\ quiz_result \in QuizOutcomes
    /\ ui = UiIdle
    /\ FcIdle
    /\ GwIdle

NextHandler == QuizButton

SpecHandler == InitHandler /\ [][NextHandler]_vars

-----------------------------------------------------------------------------
(* The claims. *)

\* a line one of the heading rules matches
IsHeading(line) == \E k \in 1..NumPatterns : PatternMatch(k, Strip(line))

\* the 0-based indices of the heading lines
HeadingIndices(ls) == {h \in 0..(Len(ls) - 1) : IsHeading(ls[h + 1])}

\* the last line index of a text: the number of its line breaks
LastIndexOf(t) == Cardinality({k \in 1..Len(t) : t[k] = "\n"})

\* C1: when line 0 and line 1 are both heading lines, the chapter opened by
\* line 0 is not in the result; for 'Chapter 1', 'Chapter 2', 'body' the
\* result is the one chapter {'Chapter 2', 1, 2}.
C1_HeadingWithoutBodyDropped ==
    (pc = "done" /\ Len(lines) >= 2 /\ IsHeading(lines[1]) /\ IsHeading(lines[2]))
        => /\ \A k \in 1..Len(chapters) : chapters[k].start_line # 0
           /\ lines = << <<"C","h","a","p","t","e","r"," ","1">>,
                         <<"C","h","a","p","t","e","r"," ","2">>,
                         <<"b","o","d","y">> >>
                => chapters = << Chapter(<<"C","h","a","p","t","e","r"," ","2">>, 1, 2) >>

\* C5: a text with no heading line gives exactly one chapter, titled with
\* the sentinel, from line 0 to the last line index of the text.
C5_NoHeadingOneSentinelChapter ==
    (pc = "done" /\ HeadingIndices(lines) = {})
        => chapters = << Chapter(Sentinel, 0, LastIndexOf(text_content)) >>

C5_Witness ==
    /\ pc = "done"
    /\ HeadingIndices(lines) = {}
    /\ LastIndexOf(text_content) >= 2
    /\ Len(chapters) = 1

\* C6: every returned chapter has end_line >= start_line, both inside
\* 0..last line index, and the start lines are strictly increasing.
C6_ChaptersOrderedAndInRange ==
    pc = "done"
        => /\ \A k \in 1..Len(chapters) :
                /\ chapters[k].end_line >= chapters[k].start_line
                /\ chapters[k].start_line \in 0..LastIndexOf(text_content)
                /\ chapters[k].end_line \in 0..LastIndexOf(text_content)
           /\ \A k \in 1..(Len(chapters) - 1) :
                chapters[k].start_line < chapters[k + 1].start_line

\* line 0 is a heading, so the scan produced the empty sentinel chapter
C6_Witness ==
    /\ pc = "done"
    /\ 0 \in HeadingIndices(lines)
    /\ Len(chapters) >= 2

RECURSIVE SortedSeq(_)
SortedSeq(S) == IF S = {} THEN <<>> ELSE <<Min(S)>> \o SortedSeq(S \ {Min(S)})

\* the chapter the heading at line h opens, by the claim
HeadingChapter(ls, h) ==
    LET later == {g \in HeadingIndices(ls) : g > h}
    IN  Chapter(Strip(ls[h + 1]), h,
                IF later = {} THEN Len(ls) - 1 ELSE Min(later) - 1)

\* the result, by the claim
ExpectedChapters(ls) ==
    LET H  == HeadingIndices(ls)
        hs == SortedSeq(H)
    IN  (IF 0 \in H THEN <<>>
         ELSE << Chapter(Sentinel, 0, IF H = {} THEN Len(ls) - 1 ELSE Min(H) - 1) >>)
        \o [k \in 1..Len(hs) |-> HeadingChapter(ls, hs[k])]

C2_TransportFailureReported ==
    (gw_op # "none" /\ gw_out.calls = 1 /\ service.transport = "error")
        => /\ gw_out.ret = PyNone
           /\ gw_out.errors = 1
           /\ gw_out.raised = "none"

\* C8: every invocation of call_gemini_api issues exactly one network request.
C8_ExactlyOneRequest ==
    (gw_op # "none" /\ gw_out.calls = 1) => gw_out.requests = 1

\* C4: generate_book_quiz on the empty text returns an object with an error
\* field, raises nothing, and neither calls call_gemini_api nor issues a
\* network request.
C4_EmptyInputIsLocalError ==
    (gw_op = "generate_book_quiz" /\ gw_text = <<>>)
        => /\ gw_out.ret.kind = "dict"
           /\ "error" \in DOMAIN gw_out.ret.entries
           /\ gw_out.raised = "none"
           /\ gw_out.calls = 0
           /\ gw_out.requests = 0

C4_Witness ==
    /\ gw_op = "generate_book_quiz"
    /\ gw_text = <<>>
    /\ gw_out.ret = QuizInputError

\* p is the first Len(p) characters of t, and at most n of them
IsPrefixWithin(p, t, n) ==
    /\ Len(p) <= n
    /\ Len(p) <= Len(t)
    /\ \A k \in 1..Len(p) : p[k] = t[k]

\* C9: the prompt handed to call_gemini_api embeds at most the first 8000
\* characters of the text in summarize_book and at most the first 2000 in
\* generate_book_quiz.
C9_PromptWithinBudget ==
    /\ (gw_op = "summarize_book" /\ gw_out.calls = 1)
            => IsPrefixWithin(gw_out.prompt.text, gw_text, 8000)
    /\ (gw_op = "generate_book_quiz" /\ gw_out.calls = 1)
            => IsPrefixWithin(gw_out.prompt.text, gw_text, 2000)

\* a text longer than the budget was cut to it
C9_Witness ==
    /\ gw_op = "summarize_book"
    /\ gw_out.calls = 1
    /\ Len(gw_text) > 8000
    /\ Len(gw_out.prompt.text) = 8000

\* C3: a value returned by generate_book_quiz that is neither a non-empty
\* list nor an object with an error field leads to the generic warning and
\* to no exception.
C3_SoftFailureWarns ==
    (/\ ui # UiIdle
     /\ chapter_text # <<>>
     /\ quiz_result.raised = "none"
     /\ ~(quiz_result.ret.kind = "list" /\ quiz_result.ret.items # <<>>)
     /\ ~(quiz_result.ret.kind = "dict" /\ "error" \in DOMAIN quiz_result.ret.entries))
        => ui = UiOutcome(<<"warning: could not generate quiz">>, "none")

=============================================================================
